---- MODULE Spec2Model ----
(***************************************************************************)
(* Model of the grade-distribution records of app/models.py: the grade     *)
(* scale tables, the semester validator, Segment, GradeElement (with its   *)
(* derived id and its segment validator) and Page (content hash check).    *)
(*                                                                         *)
(* Every operation is a pure, synchronous call.  A behaviour is a series   *)
(* of calls: from "idle" one operation is applied to arguments drawn from  *)
(* a bounded set, which leaves its arguments and its outcome in the state  *)
(* ("done"); Return hands the outcome to the caller and goes back to idle. *)
(*                                                                         *)
(* Python strings that the code inspects character by character (semester, *)
(* course code, base64 content) are sequences of one-character strings.    *)
(* Optional[str] is <<>> for None and <<s>> for a string s.                *)
(* Outcomes are records [ok, value, error, site, detail]: error is the     *)
(* Python exception class that leaves the call, site the raise statement,  *)
(* detail what the exception carries.                                      *)
(***************************************************************************)
EXTENDS Integers, Sequences, FiniteSets, TLC

VARIABLES pc, op, args, result

vars == <<pc, op, args, result>>

-----------------------------------------------------------------------------
(* Bounds of the model *)

\* longest segment list handed to GradeElement
MaxSegs == 3
\* ranks probed in the grade tables are -2 .. MaxProbeRank
MaxProbeRank == 11

-----------------------------------------------------------------------------
(* Outcomes *)

NoValue == <<>>

Ok(v) == [ok |-> TRUE, value |-> v, error |-> "none", site |-> "none", detail |-> {}]

Raise(e, s, d) == [ok |-> FALSE, value |-> NoValue, error |-> e, site |-> s, detail |-> d]

\* One line of a pydantic ValidationError: the field, the 0-based list index
\* and sub-field (-1 and "" when there is none), the error type, and the
\* context the message prints.  step is the loop index the validator had
\* reached when it raised (-1 outside a loop); it is not part of the message.
LineError(f, i, s, t, c, k) ==
    [field |-> f, index |-> i, sub |-> s, type |-> t, ctx |-> c, step |-> k]

\* `raise ValidationError` / `raise ValidationError()`: pydantic's
\* ValidationError has no constructor, so the raise statement itself fails
\* with a TypeError that carries nothing about the value being validated.
\* pydantic turns only ValueError and AssertionError of a validator into
\* validation errors; a TypeError leaves the whole construction at once.
RaiseBareValidationError(s) == Raise("TypeError", s, {})

-----------------------------------------------------------------------------
(* Python string helpers *)

Digits == {"0", "1", "2", "3", "4", "5", "6", "7", "8", "9"}

DigitVal(c) ==
    CASE c = "0" -> 0 [] c = "1" -> 1 [] c = "2" -> 2 [] c = "3" -> 3
      [] c = "4" -> 4 [] c = "5" -> 5 [] c = "6" -> 6 [] c = "7" -> 7
      [] c = "8" -> 8 [] c = "9" -> 9

\* str.split(sep) for a one-character separator
RECURSIVE Split(_, _)
Split(s, sep) ==
    IF \E i \in 1..Len(s) : s[i] = sep
    THEN LET i == CHOOSE j \in 1..Len(s) :
                    s[j] = sep /\ \A k \in 1..(j - 1) : s[k] # sep
         IN  <<SubSeq(s, 1, i - 1)>> \o Split(SubSeq(s, i + 1, Len(s)), sep)
    ELSE <<s>>

\* str.strip() as int() applies it (the only whitespace modelled is " ")
RECURSIVE LStrip(_)
LStrip(s) == IF s # <<>> /\ Head(s) = " " THEN LStrip(Tail(s)) ELSE s

RECURSIVE RStrip(_)
RStrip(s) ==
    IF s # <<>> /\ s[Len(s)] = " " THEN RStrip(SubSeq(s, 1, Len(s) - 1)) ELSE s

\* the digit groups int() accepts: digits, with single "_" between digits
IsIntBody(b) ==
    /\ b # <<>>
    /\ \A i \in 1..Len(b) : b[i] \in Digits \cup {"_"}
    /\ b[1] \in Digits /\ b[Len(b)] \in Digits
    /\ \A i \in 1..(Len(b) - 1) : ~(b[i] = "_" /\ b[i + 1] = "_")

RECURSIVE DigitsValue(_, _)
DigitsValue(b, acc) ==
    IF b = <<>> THEN acc
    ELSE IF Head(b) = "_" THEN DigitsValue(Tail(b), acc)
    ELSE DigitsValue(Tail(b), 10 * acc + DigitVal(Head(b)))

\* int(s) of a str: surrounding whitespace is stripped, one sign is allowed
PyInt(s) ==
    LET t == RStrip(LStrip(s))
        signed == t # <<>> /\ Head(t) \in {"+", "-"}
        body == IF signed THEN Tail(t) ELSE t
    IN  IF IsIntBody(body)
        THEN Ok(IF signed /\ Head(t) = "-"
                THEN 0 - DigitsValue(body, 0) ELSE DigitsValue(body, 0))
        ELSE Raise("ValueError", "int", {})

\* Field(pattern=...) is an unanchored search (pydantic-core regex)
\* r"\d+-\d+": a digit, a dash, a digit somewhere in the string
MatchesSemesterPattern(s) ==
    \E i \in 1..(Len(s) - 2) :
        s[i] \in Digits /\ s[i + 1] = "-" /\ s[i + 2] \in Digits

\* r".+?\d+": some character followed by a digit
MatchesCoursePattern(s) == \E i \in 2..Len(s) : s[i] \in Digits

-----------------------------------------------------------------------------
(* Semester *)

SemesterYearMin == 90
SemesterYearMax == 130
SemesterTermMin == 1
SemesterTermMax == 2

validate_semester(s) ==
    LET parts == Split(s, "-")
        ints == [i \in 1..Len(parts) |-> PyInt(parts[i])]
    IN  IF \E i \in 1..Len(parts) : ~ints[i].ok
        THEN Raise("ValueError", "int", {})
        ELSE IF Len(parts) # 2
        THEN Raise("ValueError", "unpack", {})
        ELSE IF /\ SemesterYearMax >= ints[1].value
                /\ ints[1].value >= SemesterYearMin
                /\ SemesterTermMax >= ints[2].value
                /\ ints[2].value >= SemesterTermMin
        THEN Ok(s)
        ELSE RaiseBareValidationError("validate_semester")

\* Annotated[str, Field(pattern), AfterValidator(validate_semester)]
\* as pydantic applies it to the field named f
Semester(f, s) ==
    IF ~MatchesSemesterPattern(s)
    THEN Raise("ValidationError", "pattern",
               {LineError(f, -1, "", "string_pattern_mismatch", <<>>, -1)})
    ELSE LET r == validate_semester(s)
         IN  IF r.error = "ValueError"
             THEN Raise("ValidationError", r.site,
                        {LineError(f, -1, "", "value_error", <<>>, -1)})
             ELSE r

-----------------------------------------------------------------------------
(* Grade scale *)

GRADES == <<"A+", "A", "A-", "B+", "B", "B-", "C+", "C", "C-", "F">>

\* the table built without reversed(): A+ gets rank 0
GradesNotReversed == GRADES

\* reversed(GRADES)
ReversedGrades == [i \in 1..Len(GRADES) |-> GRADES[Len(GRADES) + 1 - i]]

\* enumerate(reversed(GRADES)): the pairs (0-based index, label)
EnumeratedGrades == {<<i - 1, ReversedGrades[i]>> : i \in 1..Len(GRADES)}

\* {grade: i for grade, i in enumerate(...)}: enumerate yields (index, label),
\* so the key is the index and the value the label
GRADE_MAP ==
    [k \in {e[1] : e \in EnumeratedGrades} |->
        (CHOOSE e \in EnumeratedGrades : e[1] = k)[2]]

\* {i: grade for grade, i in enumerate(...)}: the key is the label
GRADE_MAP_INV ==
    [k \in {e[2] : e \in EnumeratedGrades} |->
        (CHOOSE e \in EnumeratedGrades : e[2] = k)[1]]

\* d[k] of a dict
DictGet(d, k) == IF k \in DOMAIN d THEN Ok(d[k]) ELSE Raise("KeyError", "dict", {})

validate_grade_str(s) ==
    IF \E i \in 1..Len(GRADES) : GRADES[i] = s
    THEN Ok(s)
    ELSE RaiseBareValidationError("validate_grade_str")

\* Field(ge=0, lt=len(GRADES)) on the int field named f of list element i
GradeInt(f, i, x) ==
    IF ~(x >= 0)
    THEN {LineError("segments", i, f, "greater_than_equal", <<>>, -1)}
    ELSE IF ~(x < Len(GRADES))
    THEN {LineError("segments", i, f, "less_than", <<>>, -1)}
    ELSE {}

-----------------------------------------------------------------------------
(* Segment *)

\* The line errors of Segment(l=x[1], r=x[2], value=x[3]) as element i of a
\* list: l and r are GradeInt, value is any float.
SegmentErrors(i, x) == GradeInt("l", i, x[1]) \cup GradeInt("r", i, x[2])

\* Segment.from_iterable(x) / Segment(l=, r=, value=)
Segment(x) ==
    IF SegmentErrors(-1, x) = {}
    THEN Ok([l |-> x[1], r |-> x[2], value |-> x[3]])
    ELSE Raise("ValidationError", "Segment", SegmentErrors(-1, x))

\* Segment.__iter__: the triple (l, r, value)
SegmentIter(g) == <<g.l, g.r, g.value>>

\* the (l, r, value) triples of a list of Segment objects
Triples(v) == [i \in 1..Len(v) |-> SegmentIter(v[i])]

-----------------------------------------------------------------------------
(* sorted(v, key=l), which the code does not call: used to state the      *)
(* properties about order and by the sorting variant of the validator      *)

\* sorted(raw, key=low): stable insertion sort
RECURSIVE InsertByLow(_, _)
InsertByLow(x, sorted) ==
    IF sorted = <<>> THEN <<x>>
    ELSE IF x[1] < Head(sorted)[1] THEN <<x>> \o sorted
    ELSE <<Head(sorted)>> \o InsertByLow(x, Tail(sorted))

RECURSIVE SortByLow(_)
SortByLow(raw) ==
    IF raw = <<>> THEN <<>>
    ELSE InsertByLow(raw[Len(raw)], SortByLow(SubSeq(raw, 1, Len(raw) - 1)))

-----------------------------------------------------------------------------
(* GradeElement *)

SumTarget == 100
SumAbsTol == 1
IdLength == 16

Abs(x) == IF x < 0 THEN 0 - x ELSE x

\* a strict comparison: the sums exactly 1 away from the target are refused
IsCloseStrict(a, b, t) == Abs(a - b) < t

\* math.isclose(a, b, abs_tol=t): |a - b| <= max(1e-9 * max(|a|, |b|), t);
\* the relative term stays below t for the magnitudes modelled
IsClose(a, b, t) == Abs(a - b) <= t

RECURSIVE SumValues(_)
SumValues(v) == IF v = <<>> THEN 0 ELSE Head(v).value + SumValues(Tail(v))

\* for i in range(len(v) - 1): assert v[i].r + 1 == v[i + 1].l, v
\* the 0-based indices at which the assertion is false
BrokenAt(v) == {i \in 0..(Len(v) - 2) : v[i + 1].r + 1 # v[i + 2].l}

FirstBroken(v) == CHOOSE i \in BrokenAt(v) : \A j \in BrokenAt(v) : i <= j

\* the validator sorting its input by l before it checks and returns it
valiadte_grade_eles_Sorting(v) ==
    LET raw == SortByLow(Triples(v))
        w == [i \in 1..Len(raw) |-> [l |-> raw[i][1], r |-> raw[i][2], value |-> raw[i][3]]]
    IN  IF ~IsClose(SumValues(w), SumTarget, SumAbsTol)
        THEN RaiseBareValidationError("valiadte_grade_eles")
        ELSE IF BrokenAt(w) # {}
        THEN Raise("AssertionError", "valiadte_grade_eles", w)
        ELSE Ok(w)

\* the validator with its two checks in the other order
valiadte_grade_eles_ContiguityFirst(v) ==
    IF BrokenAt(v) # {}
    THEN Raise("AssertionError", "valiadte_grade_eles", v)
    ELSE IF ~IsClose(SumValues(v), SumTarget, SumAbsTol)
    THEN RaiseBareValidationError("valiadte_grade_eles")
    ELSE Ok(v)

\* @field_validator("segments")
valiadte_grade_eles(v) ==
    IF ~IsClose(SumValues(v), SumTarget, SumAbsTol)
    THEN RaiseBareValidationError("valiadte_grade_eles")
    ELSE IF BrokenAt(v) # {}
    THEN Raise("AssertionError", "valiadte_grade_eles", v)
    ELSE Ok(v)

\* the field segments: list[Segment], then the field validator
SegmentsField(raw) ==
    LET errs == UNION {SegmentErrors(i - 1, raw[i]) : i \in 1..Len(raw)}
        v == [i \in 1..Len(raw) |-> Segment(raw[i]).value]
    IN  IF errs # {}
        THEN Raise("ValidationError", "Segment", errs)
        ELSE LET r == valiadte_grade_eles(v)
             IN  IF r.error = "AssertionError"
                 THEN Raise("ValidationError", r.site,
                            {LineError("segments", -1, "", "assertion_error",
                                       r.detail, FirstBroken(v))})
                 ELSE r

\* the field course_id1: Annotated[str, Field(pattern=r".+?\d+")]
CourseIdField(s) ==
    IF MatchesCoursePattern(s)
    THEN Ok(s)
    ELSE Raise("ValidationError", "pattern",
               {LineError("course_id1", -1, "", "string_pattern_mismatch", <<>>, -1)})

\* the field id: Annotated[str, Field(min_length=16, max_length=16)],
\* default "" (a default is not validated)
IdField(x) ==
    IF ~x.given THEN Ok("")
    ELSE IF ~x.isStr
    THEN Raise("ValidationError", "id",
               {LineError("id", -1, "", "string_type", <<>>, -1)})
    ELSE IF Len(x.str) < IdLength
    THEN Raise("ValidationError", "id",
               {LineError("id", -1, "", "string_too_short", <<>>, -1)})
    ELSE IF Len(x.str) > IdLength
    THEN Raise("ValidationError", "id",
               {LineError("id", -1, "", "string_too_long", <<>>, -1)})
    ELSE Ok(x.str)

\* repr((course_id1, class_id, semester)): the text of the tuple, which
\* tells None from a str and separates the three fields
Repr(t) == [repr |-> t]

\* hashlib.sha256(text.encode()).hexdigest()[:16]: 16 hexadecimal characters;
\* the digest is kept symbolic (equal texts, equal digests)
Sha256Hex16(text) == [hexdigits |-> IdLength, sha256 |-> text]

get_id(self) == Sha256Hex16(Repr(<<self.course_id1, self.class_id, self.semester>>))

\* GradeElement(**data): super().__init__ validates the fields in the order
\* they are declared (GradeBase first); self.id = self.get_id() follows.
GradeElement(data) ==
    LET c == CourseIdField(data.course_id1)
        s == Semester("semester", data.semester)
        g == SegmentsField(data.segments)
        d == IdField(data.id)
        Lines(f) == IF f.error = "ValidationError" THEN f.detail ELSE {}
        errs == Lines(c) \cup Lines(s) \cup Lines(g) \cup Lines(d)
    IN  IF s.error = "TypeError" THEN s
        ELSE IF g.error = "TypeError" THEN g
        ELSE IF errs # {} THEN Raise("ValidationError", "GradeElement", errs)
        ELSE LET self == [course_id1 |-> c.value, semester |-> s.value,
                          lecturer |-> data.lecturer, class_id |-> data.class_id,
                          segments |-> g.value, id |-> d.value]
             IN  Ok([self EXCEPT !.id = get_id(self)])

-----------------------------------------------------------------------------
(* Page *)

B64Pad == "="

\* position of a character in the base64 alphabet A-Z a-z 0-9 + /
B64Index(c) ==
    CASE c = "I" -> 8 [] c = "J" -> 9 [] c = "Q" -> 16 [] c = "W" -> 22
      [] c = "Y" -> 24 [] c = "j" -> 35

\* ord(c) of the characters a content string is built from
Ord(c) ==
    CASE c = "I" -> 73 [] c = "J" -> 74 [] c = "Q" -> 81 [] c = "W" -> 87
      [] c = "Y" -> 89 [] c = "j" -> 106 [] c = "=" -> 61

\* one group of four base64 characters to its one, two or three bytes
B64Group(q) ==
    LET n == B64Index(q[1]) * 262144 + B64Index(q[2]) * 4096
             + (IF q[3] = B64Pad THEN 0 ELSE B64Index(q[3]) * 64)
             + (IF q[4] = B64Pad THEN 0 ELSE B64Index(q[4]))
        b1 == n \div 65536
        b2 == (n \div 256) % 256
        b3 == n % 256
    IN  IF q[3] = B64Pad THEN <<b1>>
        ELSE IF q[4] = B64Pad THEN <<b1, b2>>
        ELSE <<b1, b2, b3>>

\* Page.parse_content: base64.decodebytes(v) of well-padded base64 text
RECURSIVE parse_content(_)
parse_content(v) ==
    IF v = <<>> THEN <<>>
    ELSE B64Group(SubSeq(v, 1, 4)) \o parse_content(SubSeq(v, 5, Len(v)))

HashModulus == 65536

\* utils.hashCode(x): the checksum F of the content, a fixed-width polynomial
\* hash of the character (or byte) codes
RECURSIVE HashCodes(_, _)
HashCodes(codes, h) ==
    IF codes = <<>> THEN h
    ELSE HashCodes(Tail(codes), (31 * h + Head(codes)) % HashModulus)

hashCode(codes) == HashCodes(codes, 0)

\* the character codes of a str
StrCodes(s) == [i \in 1..Len(s) |-> Ord(s[i])]

\* Page(content=, hashCode=): both decorators are commented out, so
\* construction runs neither parse_content nor validate_hash
Page(content, declared) == Ok([content |-> content, hashCode |-> declared])

\* Page.validate_hash(self)
validate_hash(self) ==
    IF self.hashCode # hashCode(StrCodes(self.content))
    THEN Raise("RequestValidationError", "validate_hash", {})
    ELSE Ok(self)

-----------------------------------------------------------------------------
(* Arguments the operations are called with *)

SeqsUpTo(S, n) == UNION {[1..k -> S] : k \in 0..n}

SemesterPrefixes == {<<>>, <<" ">>, <<"x">>, <<"+">>}
SemesterYears == {<<"8", "9">>, <<"9", "0">>, <<"1", "1", "0">>,
                  <<"1", "3", "0">>, <<"1", "3", "1">>}
SemesterSeparators == {<<>>, <<"-">>, <<"-", "-">>}
SemesterTerms == {<<"0">>, <<"1">>, <<"2">>, <<"3">>}
SemesterSuffixes == {<<>>, <<" ">>, <<"x">>, <<"-", "1">>}

SemesterInputs ==
    {p \o y \o d \o t \o q :
        p \in SemesterPrefixes, y \in SemesterYears, d \in SemesterSeparators,
        t \in SemesterTerms, q \in SemesterSuffixes}

ProbeRanks == (0 - 2)..MaxProbeRank

ProbeLabels == {GRADES[i] : i \in 1..Len(GRADES)} \cup {"", "D", "a+", "A++", "E"}

\* raw (l, r, value) triples
SegmentInputs ==
    { <<0, 9, 100>>, <<0, 9, 99>>, <<0, 9, 101>>, <<0, 9, 98>>, <<0, 9, 102>>,
      <<0, 8, 91>>, <<9, 9, 9>>, <<0, 7, 50>>, <<9, 9, 50>>,
      <<0, 4, 0 - 50>>, <<5, 9, 150>>, <<5, 3, 0>>, <<4, 9, 100>>,
      <<0 - 1, 9, 100>>, <<0, 10, 100>> }

CourseInputs ==
    { <<"C", "S", "I", "E", "1", "2", "1", "2">>,
      <<"M", "A", "T", "H", "4", "0", "0", "8">>,
      <<"C", "S", "I", "E">> }

ClassInputs == { <<>>, <<"01">> }

LecturerInputs == { <<>>, <<"lecturer">> }

ValidSemester == <<"1", "1", "0", "-", "2">>

GradeSemesterInputs == { ValidSemester, <<"1", "1", "1", "-", "1">>, <<"8", "9", "-", "1">> }

NoId == [given |-> FALSE, isStr |-> TRUE, str |-> ""]

ShortId == [given |-> TRUE, isStr |-> TRUE, str |-> "abc"]

IdInputs ==
    { NoId, ShortId,
      [given |-> TRUE, isStr |-> TRUE, str |-> "0123456789abcdef"],
      [given |-> TRUE, isStr |-> FALSE, str |-> "-1"] }

\* the segment lists of the documented examples, sorted and not
ExampleSegments ==
    { <<>>, << <<0, 9, 100>> >>, << <<0, 8, 91>>, <<9, 9, 9>> >>,
      << <<9, 9, 9>>, <<0, 8, 91>> >>, << <<0, 7, 50>>, <<9, 9, 50>> >> }

\* every field varied over the example segment lists, and every segment list
\* up to MaxSegs under one course and class, with a good and a bad semester
\* and with and without a caller-supplied id
GradeElementInputs ==
    [course_id1 : CourseInputs, class_id : ClassInputs,
     semester : GradeSemesterInputs, lecturer : LecturerInputs,
     segments : ExampleSegments, id : IdInputs]
    \cup
    [course_id1 : {<<"C", "S", "I", "E", "1", "2", "1", "2">>}, class_id : {<<"01">>},
     semester : {ValidSemester, <<"8", "9", "-", "1">>}, lecturer : {<<>>},
     segments : SeqsUpTo(SegmentInputs, MaxSegs), id : {NoId, ShortId}]

B64Chars == {"J", "Q", "W", "Y", "j"}

\* base64 text of zero or one group: padding only at the end of the group
ContentInputs ==
    {<<>>} \cup
    {q \in [1..4 -> B64Chars \cup {B64Pad}] :
        /\ q[1] # B64Pad /\ q[2] # B64Pad
        /\ (q[3] = B64Pad => q[4] = B64Pad)}

\* the checksum a client declares: of the text, of the decoded bytes, or neither
DeclaredInputs(content) ==
    {hashCode(StrCodes(content)), hashCode(parse_content(content)), 1}

-----------------------------------------------------------------------------
(* Specification *)

Init ==
    /\ pc = "idle"
    /\ op = "none"
    /\ args = NoValue
    /\ result = Ok(NoValue)

Call(name, a, r) ==
    /\ pc' = "done"
    /\ op' = name
    /\ args' = a
    /\ result' = r

CallSemester ==
    /\ pc = "idle"
    /\ \E s \in SemesterInputs : Call("Semester", s, Semester("semester", s))

CallGradeMap ==
    /\ pc = "idle"
    /\ \E r \in ProbeRanks : Call("GRADE_MAP", r, DictGet(GRADE_MAP, r))

CallGradeMapInv ==
    /\ pc = "idle"
    /\ \E s \in ProbeLabels : Call("GRADE_MAP_INV", s, DictGet(GRADE_MAP_INV, s))

CallValidateGradeStr ==
    /\ pc = "idle"
    /\ \E s \in ProbeLabels : Call("validate_grade_str", s, validate_grade_str(s))

CallSegment ==
    /\ pc = "idle"
    /\ \E x \in SegmentInputs : Call("Segment", x, Segment(x))

CallGradeElement ==
    /\ pc = "idle"
    /\ \E d \in GradeElementInputs : Call("GradeElement", d, GradeElement(d))

CallParseContent ==
    /\ pc = "idle"
    /\ \E c \in ContentInputs : Call("parse_content", c, Ok(parse_content(c)))

\* Page(content=c, hashCode=h).validate_hash()
CallValidateHash ==
    /\ pc = "idle"
    /\ \E c \in ContentInputs : \E h \in DeclaredInputs(c) :
        Call("validate_hash", [content |-> c, hashCode |-> h],
             validate_hash(Page(c, h).value))

Return ==
    /\ pc = "done"
    /\ pc' = "idle"
    /\ op' = "none"
    /\ args' = NoValue
    /\ result' = Ok(NoValue)

Next ==
    \/ CallSemester
    \/ CallGradeMap
    \/ CallGradeMapInv
    \/ CallValidateGradeStr
    \/ CallSegment
    \/ CallGradeElement
    \/ CallParseContent
    \/ CallValidateHash
    \/ Return

Spec == Init /\ [][Next]_vars

-----------------------------------------------------------------------------
(* Vocabulary of the properties *)

Called(name) == pc = "done" /\ op = name

RECURSIVE SumWeights(_)
SumWeights(raw) == IF raw = <<>> THEN 0 ELSE Head(raw)[3] + SumWeights(Tail(raw))

EndpointsInScale(raw) ==
    \A i \in 1..Len(raw) : raw[i][1] \in 0..9 /\ raw[i][2] \in 0..9

\* 0-based indices i with raw[i].high + 1 # raw[i+1].low
Gaps(raw) == {i \in 0..(Len(raw) - 2) : raw[i + 1][2] + 1 # raw[i + 2][1]}

Contiguous(raw) == Gaps(raw) = {}

CoversScale(raw) ==
    /\ raw # <<>>
    /\ raw[1][1] = 0
    /\ raw[Len(raw)][2] = 9
    /\ Contiguous(raw)

AscendingLow(raw) == \A i \in 1..(Len(raw) - 1) : raw[i][1] <= raw[i + 1][1]

\* the semester of the call passes its own validator without a TypeError, so
\* the construction reaches the segments
ReachesSegments == Semester("semester", args.semester).error # "TypeError"

\* every field but segments is valid
OtherFieldsValid ==
    /\ CourseIdField(args.course_id1).ok
    /\ Semester("semester", args.semester).ok
    /\ IdField(args.id).ok

SumCheckFailed == result.error = "TypeError" /\ result.site = "valiadte_grade_eles"

-----------------------------------------------------------------------------
(* C1 *)

\* C1: every GradeElement that construction returns covers the whole scale:
\* first low = 0, last high = 9, each high + 1 = the next low; a list that
\* breaks one of these (an empty list included) yields no object.
C1_FullCoverage ==
    Called("GradeElement") =>
        /\ result.ok => CoversScale(Triples(result.value.segments))
        /\ ~CoversScale(args.segments) => ~result.ok

-----------------------------------------------------------------------------
(* C2 *)

\* C2: verify succeeds if and only if the checksum of the base64-decoded
\* content equals the declared checksum.
C2_VerifyIffDecodedChecksum ==
    Called("validate_hash") =>
        (result.ok <=> hashCode(parse_content(args.content)) = args.hashCode)

-----------------------------------------------------------------------------
(* C3 *)

\* C3: the id of a constructed GradeElement is the 16-hex digest of
\* (course_id1, class_id, semester) alone, and a caller-supplied id neither
\* becomes the object's id nor changes whether construction succeeds.
C3_IdIgnoresCallerId ==
    Called("GradeElement") =>
        /\ result.ok =>
            result.value.id =
                Sha256Hex16(Repr(<<args.course_id1, args.class_id, args.semester>>))
        /\ result.ok = GradeElement([args EXCEPT !.id = NoId]).ok

-----------------------------------------------------------------------------
(* C4 *)

-----------------------------------------------------------------------------
(* C5 *)

\* C5: Segment construction fails whenever low > high or an endpoint is
\* outside [0, 9], so every Segment has 0 <= low <= high <= 9.
C5_SegmentRange ==
    Called("Segment") =>
        /\ (args[1] > args[2] \/ args[1] \notin 0..9 \/ args[2] \notin 0..9) => ~result.ok
        /\ result.ok => 0 <= result.value.l /\ result.value.l <= result.value.r
                        /\ result.value.r <= 9

-----------------------------------------------------------------------------
(* C6 *)

\* C6: Segment construction fails whenever weight < 0, and no segment of a
\* constructed GradeElement carries a negative weight.
C6_NoNegativeWeight ==
    /\ Called("Segment") /\ args[3] < 0 => ~result.ok
    /\ Called("GradeElement") /\ result.ok =>
        \A i \in 1..Len(result.value.segments) : result.value.segments[i].value >= 0

-----------------------------------------------------------------------------
(* C7 *)

\* the decimal numeral of a natural number below 1000
Numeral(n) ==
    LET d(k) == CHOOSE c \in Digits : DigitVal(c) = k
    IN  IF n < 10 THEN <<d(n)>>
        ELSE IF n < 100 THEN <<d(n \div 10), d(n % 10)>>
        ELSE <<d(n \div 100), d((n \div 10) % 10), d(n % 10)>>

ExactSemesters == {Numeral(y) \o <<"-">> \o Numeral(m) : y \in 90..130, m \in 1..2}

\* C7: a semester string is accepted if and only if it is exactly
\* "<year>-<term>" with year in [90, 130] and term in {1, 2}, and an accepted
\* string is returned unchanged.
C7_SemesterExactForm ==
    Called("Semester") =>
        /\ result.ok <=> args \in ExactSemesters
        /\ result.ok => result.value = args

-----------------------------------------------------------------------------
(* C8 *)

ScaleOrder == <<"F", "C-", "C", "C+", "B-", "B", "B+", "A-", "A", "A+">>

ScaleLabels == {ScaleOrder[i] : i \in 1..10}

\* C8: the rank-to-label table and the label-to-rank table are inverse
\* bijections between 0..9 and the ten labels in the order F, C-, C, C+, B-,
\* B, B+, A-, A, A+; a rank outside [0, 9] and a string that is no label fail.
C8_GradeScaleBijection ==
    /\ Called("GRADE_MAP") =>
        /\ result.ok <=> args \in 0..9
        /\ result.ok =>
            /\ result.value = ScaleOrder[args + 1]
            /\ DictGet(GRADE_MAP_INV, result.value) = Ok(args)
    /\ Called("GRADE_MAP_INV") =>
        /\ result.ok <=> args \in ScaleLabels
        /\ result.ok =>
            /\ result.value \in 0..9
            /\ ScaleOrder[result.value + 1] = args
            /\ DictGet(GRADE_MAP, result.value) = Ok(args)
    /\ Called("validate_grade_str") =>
        /\ result.ok <=> args \in ScaleLabels
        /\ result.ok => result.value = args

C8_Witness ==
    /\ Called("GRADE_MAP")
    /\ args = 9
    /\ result = Ok("A+")
    /\ DictGet(GRADE_MAP_INV, "A+") = Ok(9)

-----------------------------------------------------------------------------
(* C9 *)

\* C9 as stated: construction does not depend on the order of the segments:
\* a list is accepted exactly when the list sorted by low is, and the
\* segments of the object are in ascending order of low.
C9_OrderIndependent ==
    Called("GradeElement") =>
        /\ result.ok = GradeElement([args EXCEPT !.segments = SortByLow(@)]).ok
        /\ result.ok => AscendingLow(Triples(result.value.segments))

\* C9 as amended: construction does not sort: it checks each high + 1 against
\* the next low on the list as the caller gave it, the segments of the object
\* are the caller's list in the caller's order, and a list that is accepted
\* when sorted but is not listed in that order is rejected.
C9_OrderAsGiven ==
    Called("GradeElement") =>
        /\ result.ok =>
            /\ Triples(result.value.segments) = args.segments
            /\ Contiguous(args.segments)
        /\ ~Contiguous(args.segments) => ~result.ok

C9_Witness ==
    /\ Called("GradeElement")
    /\ args.segments = << <<9, 9, 9>>, <<0, 8, 91>> >>
    /\ GradeElement([args EXCEPT !.segments = SortByLow(@)]).ok
    /\ ~result.ok
    /\ \E e \in result.detail : e.type = "assertion_error"

-----------------------------------------------------------------------------
(* C10 *)

MinOf(S) == CHOOSE i \in S : \A j \in S : i <= j

\* C10 as stated: contiguity is checked before the weight sum: a list that
\* breaks contiguity is rejected with the contiguity error, whatever its sum,
\* and the error arises at the smallest index at which a gap or overlap occurs.
C10_ContiguityBeforeSum ==
    Called("GradeElement") /\ EndpointsInScale(args.segments) /\ OtherFieldsValid
        /\ ~Contiguous(args.segments) =>
        \E e \in result.detail :
            e.type = "assertion_error" /\ e.step = MinOf(Gaps(args.segments))

\* C10 as amended: the weight sum is checked before contiguity: a list of
\* in-scale segments whose sum is outside [99, 101] is rejected by the sum
\* check whether or not it is contiguous; otherwise a list that breaks
\* contiguity is rejected by the assertion, which fails at the smallest index
\* where high + 1 differs from the next low and carries the whole segment
\* list, not an index.
C10_SumBeforeContiguity ==
    Called("GradeElement") /\ EndpointsInScale(args.segments) /\ ReachesSegments =>
        /\ SumWeights(args.segments) \notin 99..101 => SumCheckFailed
        /\ SumWeights(args.segments) \in 99..101 /\ ~Contiguous(args.segments) =>
            /\ result.error = "ValidationError"
            /\ \E e \in result.detail :
                /\ e.type = "assertion_error"
                /\ e.step = MinOf(Gaps(args.segments))
                /\ e.index = 0 - 1
                /\ Triples(e.ctx) = args.segments

C10_Witness ==
    /\ Called("GradeElement")
    /\ ReachesSegments
    /\ args.segments = << <<0, 7, 50>>, <<9, 9, 9>> >>
    /\ SumCheckFailed

====
